---- MODULE Spec2Model ----
(***************************************************************************)
(* Cliently (src/main.py): the three calculators billCalc, suggestion and  *)
(* dateCalc, and the console program that prompts for criminal, civil and  *)
(* filing cases, calls the calculators and prints one report per case.     *)
(*                                                                         *)
(* Python values are records [t, k, n, d, s]:                              *)
(*   t  the Python type ("int", "bool", "float", "str", "NoneType");       *)
(*   k  "fin" for a finite number, "nan", "inf", "ninf" for the special    *)
(*      floats;                                                            *)
(*   n, d  the number n/d (d = 1 for int and bool);                        *)
(*   s  the text of a str, as a sequence of one-character strings.         *)
(* Every float the model feeds to the arithmetic is a dyadic rational of   *)
(* small magnitude (eighths), on which IEEE double arithmetic is exact, so *)
(* n/d is the double the interpreter holds; round(x, 2) then rounds the    *)
(* exact value to the nearest hundredth, ties to even.                     *)
(***************************************************************************)
EXTENDS Integers, Sequences, FiniteSets, TLC

VARIABLES
    fn, args, out,          \* calculator harness: function called, arguments, outcome
    pc,                     \* console program: position in the script
    category,               \* "Criminal", "Civil" or "Filing" section
    caseCount, i,           \* the section's case count and the for-loop index
    client,                 \* clientCriminal / clientCivil / clientFiling dict
    totalBill, clientSuggestion, daysTillCourt,   \* retry-loop variables
    printed, nPrinted,      \* the record last printed, number of reports printed
    lastTry                 \* how the latest pass of a retry loop ended

calcVars == <<fn, args, out>>
cliVars == <<pc, category, caseCount, i, client, totalBill, clientSuggestion,
             daysTillCourt, printed, nPrinted, lastTry>>
vars == <<fn, args, out, pc, category, caseCount, i, client, totalBill,
          clientSuggestion, daysTillCourt, printed, nPrinted, lastTry>>

----------------------------------------------------------------------------
(* Python values *)

PyInt(n) == [t |-> "int", k |-> "fin", n |-> n, d |-> 1, s |-> <<>>]
PyBool(b) == [t |-> "bool", k |-> "fin", n |-> IF b THEN 1 ELSE 0, d |-> 1, s |-> <<>>]
PyFloat(n, d) == [t |-> "float", k |-> "fin", n |-> n, d |-> d, s |-> <<>>]
PySpecial(k) == [t |-> "float", k |-> k, n |-> 0, d |-> 1, s |-> <<>>]
PyStr(s) == [t |-> "str", k |-> "fin", n |-> 0, d |-> 1, s |-> s]
PyNone == [t |-> "NoneType", k |-> "fin", n |-> 0, d |-> 1, s |-> <<>>]

NaN == PySpecial("nan")
PosInf == PySpecial("inf")
NegInf == PySpecial("ninf")

\* isinstance(x, (int, float)) and isinstance(x, int): bool is a subclass of int
IsNumber(x) == x.t \in {"int", "bool", "float"}
IsInt(x) == x.t \in {"int", "bool"}

\* x < c, x > c, x == c for a number x and an integer literal c (false on nan)
Lt(x, c) == \/ x.k = "ninf"
            \/ x.k = "fin" /\ x.n < c * x.d
Gt(x, c) == \/ x.k = "inf"
            \/ x.k = "fin" /\ x.n > c * x.d
EqInt(x, c) == IsNumber(x) /\ x.k = "fin" /\ x.n = c * x.d
Ge(x, c) == Gt(x, c) \/ (x.k = "fin" /\ x.n = c * x.d)

Sign(x) == IF x.k = "inf" THEN 1
           ELSE IF x.k = "ninf" THEN -1
           ELSE IF x.n > 0 THEN 1 ELSE IF x.n < 0 THEN -1 ELSE 0

\* rate * hours: int*int is an int, anything with a float is a float;
\* nan propagates, inf * 0 is nan
Mul(x, y) ==
    IF x.k = "nan" \/ y.k = "nan" THEN NaN
    ELSE IF x.k # "fin" \/ y.k # "fin"
         THEN IF Sign(x) * Sign(y) = 0 THEN NaN
              ELSE IF Sign(x) * Sign(y) > 0 THEN PosInf ELSE NegInf
    ELSE IF x.t = "float" \/ y.t = "float"
         THEN PyFloat(x.n * y.n, x.d * y.d)
         ELSE PyInt(x.n * y.n)

\* x + c for an integer literal c
AddInt(x, c) ==
    IF x.k # "fin" THEN x
    ELSE IF x.t = "float" THEN PyFloat(x.n + c * x.d, x.d)
    ELSE PyInt(x.n + c)

\* the integer nearest to a/b (a >= 0, b > 0), ties to the even integer
RoundHalfEven(a, b) ==
    LET q == a \div b
        r == a % b
    IN  IF 2 * r < b THEN q
        ELSE IF 2 * r > b THEN q + 1
        ELSE IF q % 2 = 0 THEN q ELSE q + 1

\* round(x, 2): an int is returned as it is, nan and inf are returned as they
\* are, a finite float goes to the nearest hundredth
Round2(x) ==
    IF x.t # "float" \/ x.k # "fin" THEN x
    ELSE LET whole == x.n \div x.d
             frac == x.n % x.d
         IN  PyFloat(whole * 100 + RoundHalfEven(frac * 100, x.d), 100)

----------------------------------------------------------------------------
(* Outcomes of a call *)

Return(v) == [tag |-> "return", exc |-> "none", val |-> v]
Raise(e) == [tag |-> "raise", exc |-> e, val |-> PyNone]
Pending == [tag |-> "pending", exc |-> "none", val |-> PyNone]

----------------------------------------------------------------------------
(* billCalc *)

RetainerFee == 200
MaxHours == 1000

\* lines 51-56: the value checks
BillOutOfRange_NoUpper(rate, hours) == Lt(rate, 0) \/ Lt(hours, 0)

BillOutOfRange(rate, hours) ==
    \/ Lt(rate, 0) \/ Lt(hours, 0)
    \/ Gt(hours, MaxHours)

\* line 59
BillAmount_NoRetainer(rate, hours) == Round2(Mul(rate, hours))

BillAmount(rate, hours) == Round2(AddInt(Mul(rate, hours), RetainerFee))

billCalc_RangeFirst(rate, hours) ==
    IF \/ IsNumber(rate) /\ Lt(rate, 0)
       \/ IsNumber(hours) /\ (Lt(hours, 0) \/ Gt(hours, MaxHours))
    THEN Raise("ValueError")
    ELSE IF ~IsNumber(rate) \/ ~IsNumber(hours) THEN Raise("TypeError")
    ELSE Return(BillAmount(rate, hours))

billCalc(rate, hours) ==
    IF ~IsNumber(rate) \/ ~IsNumber(hours) THEN Raise("TypeError")
    ELSE IF BillOutOfRange(rate, hours) THEN Raise("ValueError")
    ELSE Return(BillAmount(rate, hours))

----------------------------------------------------------------------------
(* suggestion *)

DropTheCase == <<"D","r","o","p"," ","t","h","e"," ","c","a","s","e">>
LetClientDecide == <<"L","e","t"," ","c","l","i","e","n","t"," ","d","e","c","i","d","e">>
PursueTheCase == <<"P","u","r","s","u","e"," ","t","h","e"," ","c","a","s","e">>

MinRating == 1
MaxRating == 10

\* lines 97-102: the value checks
RatingOutOfRange_FirstOnly(strength, flexibility, communication) ==
    strength < MinRating \/ strength > MaxRating

RatingOutOfRange(strength, flexibility, communication) ==
    \/ strength < MinRating \/ flexibility < MinRating \/ communication < MinRating
    \/ strength > MaxRating \/ flexibility > MaxRating \/ communication > MaxRating

\* lines 107-112: the if/elif chain on the total score; falling off its end
\* returns None
Decision_StrictDrop(totalScore) ==
    IF totalScore >= 1 /\ totalScore < 14 THEN PyStr(DropTheCase)
    ELSE IF totalScore >= 14 /\ totalScore <= 20 THEN PyStr(LetClientDecide)
    ELSE IF totalScore > 20 /\ totalScore <= 30 THEN PyStr(PursueTheCase)
    ELSE PyNone

Decision(totalScore) ==
    IF totalScore >= 1 /\ totalScore <= 14 THEN PyStr(DropTheCase)
    ELSE IF totalScore > 14 /\ totalScore <= 20 THEN PyStr(LetClientDecide)
    ELSE IF totalScore > 20 /\ totalScore <= 30 THEN PyStr(PursueTheCase)
    ELSE PyNone

suggestion(strength, flexibility, communication) ==
    IF ~IsInt(strength) \/ ~IsInt(flexibility) \/ ~IsInt(communication)
    THEN Raise("TypeError")
    ELSE IF RatingOutOfRange(strength.n, flexibility.n, communication.n)
    THEN Raise("ValueError")
    ELSE Return(Decision(strength.n + flexibility.n + communication.n))

----------------------------------------------------------------------------
(* datetime.date, as dateCalc uses it *)

MINYEAR == 1
MAXYEAR == 9999

IsLeap(y) == y % 4 = 0 /\ (y % 100 # 0 \/ y % 400 = 0)

DaysInMonth(y, m) ==
    IF m = 2 THEN (IF IsLeap(y) THEN 29 ELSE 28)
    ELSE IF m \in {4, 6, 9, 11} THEN 30 ELSE 31

\* days in the year before the first day of month m
DaysBeforeMonth(y, m) ==
    LET cum == <<0, 31, 59, 90, 120, 151, 181, 212, 243, 273, 304, 334>>
    IN  cum[m] + (IF m > 2 /\ IsLeap(y) THEN 1 ELSE 0)

\* days before January 1st of year y
DaysBeforeYear(y) ==
    LET p == y - 1
    IN  p * 365 + p \div 4 - p \div 100 + p \div 400

\* datetime.date(y, m, d) raises ValueError unless this holds
DateExists(y, m, d) ==
    /\ y >= MINYEAR /\ y <= MAXYEAR
    /\ m >= 1 /\ m <= 12
    /\ d >= 1 /\ d <= DaysInMonth(y, m)

\* date.toordinal()
Ordinal(y, m, d) == DaysBeforeYear(y) + DaysBeforeMonth(y, m) + d

----------------------------------------------------------------------------
(* dateCalc *)

YearLimit == 2100
TodayYear == 2021
TodayMonth == 6
TodayDay == 15

\* lines 148-172: the if/elif chain; TRUE when one of its branches raises
DateRejected_YearOffByOne(year, month, day) ==
    IF year > YearLimit THEN TRUE
    ELSE IF month < 1 \/ month > 12 THEN TRUE
    ELSE IF month \in {1, 3, 5, 7, 8, 10, 12} THEN day > 31 \/ day < 1
    ELSE IF month = 2
         THEN IF year % 4 # 0 THEN day > 28 \/ day < 1
              ELSE day > 29 \/ day < 1
    ELSE IF month \in {4, 6, 9, 11} THEN day > 30 \/ day < 1
    ELSE FALSE

DateRejected(year, month, day) ==
    IF year >= YearLimit THEN TRUE
    ELSE IF month < 1 \/ month > 12 THEN TRUE
    ELSE IF month \in {1, 3, 5, 7, 8, 10, 12} THEN day > 31 \/ day < 1
    ELSE IF month = 2
         THEN IF year % 4 # 0 THEN day > 28 \/ day < 1
              ELSE day > 29 \/ day < 1
    ELSE IF month \in {4, 6, 9, 11} THEN day > 30 \/ day < 1
    ELSE FALSE

\* line 181: courtDate < today, on the dates' ordinals
InThePast_Inclusive(courtDate, today) == courtDate <= today

InThePast_Never(courtDate, today) == FALSE

InThePast(courtDate, today) == courtDate < today

dateCalc(year, month, day) ==
    IF ~IsInt(year) \/ ~IsInt(month) \/ ~IsInt(day) THEN Raise("TypeError")
    ELSE IF DateRejected(year.n, month.n, day.n) THEN Raise("ValueError")
    ELSE IF ~DateExists(year.n, month.n, day.n) THEN Raise("ValueError")
    ELSE LET courtDate == Ordinal(year.n, month.n, day.n)
             today == Ordinal(TodayYear, TodayMonth, TodayDay)
         IN  IF InThePast(courtDate, today) THEN Raise("ValueError")
             ELSE Return(PyInt(courtDate - today))

----------------------------------------------------------------------------
(* Console input: a typed line is a sequence of characters; reading at end   *)
(* of input makes input() raise EOFError.                                    *)

EOF == <<"<EOF>">>

Digits == <<"0", "1", "2", "3", "4", "5", "6", "7", "8", "9">>

IsDigit(c) == \E j \in 1 .. 10 : Digits[j] = c

DigitVal(c) == (CHOOSE j \in 1 .. 10 : Digits[j] = c) - 1

RECURSIVE DigitsValue(_)
DigitsValue(q) ==
    IF q = <<>> THEN 0
    ELSE 10 * DigitsValue(SubSeq(q, 1, Len(q) - 1)) + DigitVal(q[Len(q)])

AllDigits(q) == \A j \in 1 .. Len(q) : IsDigit(q[j])

RECURSIVE Pow10(_)
Pow10(e) == IF e = 0 THEN 1 ELSE 10 * Pow10(e - 1)

\* str.strip() on blanks
RECURSIVE StripLeft(_)
StripLeft(q) == IF q # <<>> /\ Head(q) = " " THEN StripLeft(Tail(q)) ELSE q

RECURSIVE StripRight(_)
StripRight(q) ==
    IF q # <<>> /\ q[Len(q)] = " " THEN StripRight(SubSeq(q, 1, Len(q) - 1)) ELSE q

Strip(q) == StripRight(StripLeft(q))

Lower(c) ==
    CASE c = "N" -> "n" [] c = "A" -> "a" [] c = "I" -> "i" [] c = "F" -> "f"
      [] c = "T" -> "t" [] c = "Y" -> "y" [] OTHER -> c

HasSign(q) == q # <<>> /\ Head(q) \in {"+", "-"}
Unsigned(q) == IF HasSign(q) THEN Tail(q) ELSE q
Negative(q) == q # <<>> /\ Head(q) = "-"

\* int(text): blanks stripped, an optional sign, then one or more digits
ParseInt(text) ==
    LET body == Unsigned(Strip(text))
    IN  IF body = <<>> \/ ~AllDigits(body) THEN Raise("ValueError")
        ELSE Return(PyInt(IF Negative(Strip(text)) THEN 0 - DigitsValue(body)
                          ELSE DigitsValue(body)))

\* float(text): blanks stripped, an optional sign, then nan, inf or infinity in
\* any case, or digits with at most one point and at least one digit
ParseFloat(text) ==
    LET q == Strip(text)
        body == Unsigned(q)
        low == [j \in 1 .. Len(body) |-> Lower(body[j])]
        dots == {j \in 1 .. Len(body) : body[j] = "."}
        p == IF dots = {} THEN Len(body) + 1 ELSE CHOOSE j \in dots : TRUE
        whole == SubSeq(body, 1, p - 1)
        frac == SubSeq(body, p + 1, Len(body))
        n == DigitsValue(whole \o frac)
    IN  IF low = <<"n", "a", "n">> THEN Return(NaN)
        ELSE IF low \in {<<"i", "n", "f">>, <<"i", "n", "f", "i", "n", "i", "t", "y">>}
             THEN Return(IF Negative(q) THEN NegInf ELSE PosInf)
        ELSE IF \/ Cardinality(dots) > 1
                \/ Len(whole) + Len(frac) = 0
                \/ ~AllDigits(whole) \/ ~AllDigits(frac)
             THEN Raise("ValueError")
        ELSE Return(PyFloat(IF Negative(q) THEN 0 - n ELSE n, Pow10(Len(frac))))

\* text.split('-')
RECURSIVE Split(_)
Split(q) ==
    LET hy == {j \in 1 .. Len(q) : q[j] = "-"}
    IN  IF hy = {} THEN <<q>>
        ELSE LET j == CHOOSE x \in hy : \A z \in hy : x <= z
             IN  <<SubSeq(q, 1, j - 1)>> \o Split(SubSeq(q, j + 1, Len(q)))

\* year, month, day = map(int, text.split('-')): ValueError unless there are
\* exactly three parts and int() accepts each
ParseDate(text) ==
    LET parts == Split(text)
    IN  IF Len(parts) # 3 \/ \E j \in 1 .. Len(parts) : ParseInt(parts[j]).tag = "raise"
        THEN Raise("ValueError")
        ELSE Return(<<ParseInt(parts[1]).val, ParseInt(parts[2]).val,
                      ParseInt(parts[3]).val>>)

\* input(): the line, or EOFError at end of input
Input(line) == IF line = EOF THEN Raise("EOFError") ELSE Return(line)

----------------------------------------------------------------------------
(* Calculator harness: the arguments are drawn in Init, the call applies     *)
(* the function to them.                                                     *)

MaxEighths == 9
BigRate == 100000
RatingSlack == 2
YearsBack == 2
YearsPast == 1
DaySlack == 1

\* a float that is no integer, a str and None: the wrong type for an int
NonInts == {PyFloat(44, 8), PyStr(<<"5">>), PyNone}

BillVals ==
    {PyInt(n) : n \in {-1, 0, 1, 8, 20, 300, MaxHours, MaxHours + 1, BigRate}}
    \cup {PyFloat(n, 8) : n \in -1 .. MaxEighths}
    \cup {PyFloat(8 * MaxHours + 1, 8), NaN, PosInf, NegInf,
          PyBool(TRUE), PyStr(<<"8">>), PyNone}

RatingVals ==
    {PyInt(n) : n \in (MinRating - RatingSlack) .. (MaxRating + RatingSlack)}
    \cup {PyBool(TRUE), PyBool(FALSE)} \cup NonInts

YearVals ==
    {PyInt(n) : n \in {-4, 0, 1, 1900, 2000}
                      \cup ((TodayYear - YearsBack) .. (YearLimit + YearsPast))}
    \cup NonInts
MonthVals == {PyInt(n) : n \in 0 .. 13} \cup {PyBool(TRUE)} \cup NonInts
DayVals == {PyInt(n) : n \in (1 - DaySlack) .. (31 + DaySlack)} \cup NonInts

ArgsOf(f) ==
    IF f = "billCalc" THEN BillVals \X BillVals
    ELSE IF f = "suggestion" THEN RatingVals \X RatingVals \X RatingVals
    ELSE YearVals \X MonthVals \X DayVals

\* the console program before its first prompt (line 213); names not yet
\* bound are None, no dict exists and nothing is printed
CliIdle ==
    /\ pc = "count"
    /\ category = "Criminal"
    /\ caseCount = PyInt(-1)
    /\ i = 0
    /\ client = <<>>
    /\ totalBill = PyNone
    /\ clientSuggestion = PyNone
    /\ daysTillCourt = PyNone
    /\ printed = <<>>
    /\ nPrinted = 0
    /\ lastTry = "none"

CalcInit ==
    /\ fn \in {"billCalc", "suggestion", "dateCalc"}
    /\ args \in ArgsOf(fn)
    /\ out = Pending
    /\ CliIdle

CallBillCalc ==
    /\ fn = "billCalc" /\ out = Pending
    /\ out' = billCalc(args[1], args[2])
    /\ UNCHANGED <<fn, args>>
    /\ UNCHANGED cliVars

CallSuggestion ==
    /\ fn = "suggestion" /\ out = Pending
    /\ out' = suggestion(args[1], args[2], args[3])
    /\ UNCHANGED <<fn, args>>
    /\ UNCHANGED cliVars

CallDateCalc ==
    /\ fn = "dateCalc" /\ out = Pending
    /\ out' = dateCalc(args[1], args[2], args[3])
    /\ UNCHANGED <<fn, args>>
    /\ UNCHANGED cliVars

CalcNext == CallBillCalc \/ CallSuggestion \/ CallDateCalc

CalcSpec == CalcInit /\ [][CalcNext]_vars

----------------------------------------------------------------------------
(* The console program, lines 208-552.  The criminal, civil and filing       *)
(* sections are three copies of the same script (the filing section has no   *)
(* charge and no suggestion, and calls its day count filingDeadline); the    *)
(* actions take the section from category.                                   *)

MaxCases == 2

Criminal == <<"C", "r", "i", "m", "i", "n", "a", "l">>
Civil == <<"C", "i", "v", "i", "l">>
Filing == <<"F", "i", "l", "i", "n", "g">>
Today == <<"T", "O", "D", "A", "Y", "!", "!", "!">>

ChargeKey(cat) == IF cat = "Criminal" THEN "Criminal Charge" ELSE "Lawsuit Claim"
DaysKey(cat) == IF cat = "Filing" THEN "Days Until Deadline" ELSE "Days Until Court"
CostKey(cat) == IF cat = "Filing" THEN "Filing Fee" ELSE "Legal Counsel Cost Due"

\* lines 232, 358, 483: the dict of a new case, 0 in every field but Type
NewClient_Reused(cat) ==
    LET type == IF cat = "Filing" THEN Filing
                ELSE IF cat = "Criminal" THEN Criminal ELSE Civil
    IN  IF DOMAIN client # {} /\ client["Type"] = PyStr(type) THEN client
        ELSE IF cat = "Filing"
        THEN ("Type" :> PyStr(Filing)) @@ ("Name" :> PyInt(0))
             @@ ("Days Until Deadline" :> PyInt(0)) @@ ("Filing Fee" :> PyInt(0))
        ELSE ("Type" :> PyStr(type))
             @@ ("Name" :> PyInt(0)) @@ (ChargeKey(cat) :> PyInt(0))
             @@ ("Suggested Decision" :> PyInt(0)) @@ ("Days Until Court" :> PyInt(0))
             @@ ("Legal Counsel Cost Due" :> PyInt(0))

NewClient(cat) ==
    IF cat = "Filing"
    THEN ("Type" :> PyStr(Filing)) @@ ("Name" :> PyInt(0))
         @@ ("Days Until Deadline" :> PyInt(0)) @@ ("Filing Fee" :> PyInt(0))
    ELSE ("Type" :> PyStr(IF cat = "Criminal" THEN Criminal ELSE Civil))
         @@ ("Name" :> PyInt(0)) @@ (ChargeKey(cat) :> PyInt(0))
         @@ ("Suggested Decision" :> PyInt(0)) @@ ("Days Until Court" :> PyInt(0))
         @@ ("Legal Counsel Cost Due" :> PyInt(0))

\* the lines typed at the prompts
CountLines ==
    {<<Digits[n + 1]>> : n \in 0 .. MaxCases} \cup {<<"-", "1">>, <<"x">>, EOF}
NameLines == {<<" ", "A", "l", " ">>, EOF}
ChargeLines == {<<"t", "h", "e", "f", "t">>, EOF}
RateLines ==
    {<<"3", "0", "0">>, <<"-", "1">>, <<"n", "a", "n">>, <<"i", "n", "f">>,
     <<"$">>, EOF}
HoursLines ==
    {<<"0">>, <<"8">>, <<"1", "0", "0", "0", ".", "1", "2", "5">>,
     <<"-", ".", "5">>, <<>>}
RatingLines == {<<"1">>, <<"7">>, <<"1", "1">>, <<"x">>}
DateLines ==
    {<<"2", "0", "2", "1", "-", "0", "6", "-", "1", "5">>,
     <<"2", "0", "2", "1", "-", "6", "-", "1", "6">>,
     <<"2", "0", "2", "1", "-", "0", "6", "-", "1", "4">>,
     <<"2", "0", "2", "4", "-", "2", "-", "3", "0">>,
     <<"2", "1", "0", "0", "-", "1", "-", "1">>,
     <<"0", "-", "1", "-", "1">>,
     <<"2", "0", "2", "1", "-", "0", "6">>,
     EOF}

Init ==
    /\ fn = "none" /\ args = <<>> /\ out = Pending
    /\ CliIdle

\* lines 223-228 (and the same clauses of every retry loop): except TypeError,
\* except ValueError, except Exception; EOFError is an Exception
Caught_TypeErrorOnly(exc) == exc = "TypeError"

Caught(exc) == exc \in {"TypeError", "ValueError", "EOFError"}

\* lines 245, 277, 303, 519: the retry loops run while their variable == -1
StillUnset_Zero(v) == EqInt(v, 0)

StillUnset(v) == EqInt(v, -1)

\* a pass of a retry loop that ended in exception exc: the except clause prints
\* a message and the loop comes round again with nothing changed; an
\* exception no clause catches ends the program
Except(exc) ==
    IF Caught(exc) THEN lastTry' = "raise" /\ UNCHANGED pc
    ELSE lastTry' = "none" /\ pc' = "crashed"

\* lines 230, 356, 481: the head of the for loop over range(0, n, 1), reached
\* with index k.  It starts case k with a new dict, or leaves the loop: for
\* the next section, whose first statement sets caseCount = -1 (lines 339,
\* 464), or for the end of the script.
ForHead(k, n) ==
    IF k < n
    THEN /\ i' = k
         /\ client' = NewClient(category)
         /\ pc' = "name"
         /\ caseCount' = PyInt(n)
         /\ UNCHANGED category
    ELSE IF category = "Filing"
    THEN /\ pc' = "done"
         /\ caseCount' = PyInt(n)
         /\ UNCHANGED <<i, client, category>>
    ELSE /\ pc' = "count"
         /\ category' = IF category = "Criminal" THEN "Civil" ELSE "Filing"
         /\ caseCount' = PyInt(-1)
         /\ UNCHANGED <<i, client>>

\* lines 214-228: one pass of the case-count loop.  A line that is no integer
\* (or end of input) is caught and the prompt repeats; a negative count is
\* stored and the prompt repeats; a count >= 0 leaves the loop.
CountAttempt(line) ==
    /\ pc = "count"
    /\ LET typed == Input(line)
           r == IF typed.tag = "raise" THEN typed ELSE ParseInt(typed.val)
       IN  IF r.tag = "raise"
           THEN Except(r.exc) /\ UNCHANGED <<category, caseCount, i, client>>
           ELSE IF r.val.n < 0
           THEN /\ caseCount' = r.val
                /\ lastTry' = "negative"
                /\ UNCHANGED <<pc, category, i, client>>
           ELSE lastTry' = "return" /\ ForHead(0, r.val.n)
    /\ UNCHANGED <<totalBill, clientSuggestion, daysTillCourt, printed, nPrinted>>
    /\ UNCHANGED calcVars

\* lines 237-244: the name is read outside any try, so end of input ends the
\* program with an uncaught EOFError; otherwise the stripped name is stored
\* and the bill loop is entered with totalBill = -1
NameInput(line) ==
    /\ pc = "name"
    /\ IF Input(line).tag = "raise"
       THEN pc' = "crashed" /\ UNCHANGED <<client, totalBill>>
       ELSE /\ client' = [client EXCEPT !["Name"] = PyStr(Strip(line))]
            /\ totalBill' = PyInt(-1)
            /\ pc' = "bill"
    /\ lastTry' = "none"
    /\ UNCHANGED <<category, caseCount, i, clientSuggestion, daysTillCourt,
                   printed, nPrinted>>
    /\ UNCHANGED calcVars

\* what follows the bill loop: the charge prompt, or in the filing section
\* the deadline loop, entered with filingDeadline = -1 (line 518)
AfterBill ==
    IF category = "Filing"
    THEN pc' = "date" /\ daysTillCourt' = PyInt(-1)
    ELSE pc' = "charge" /\ UNCHANGED daysTillCourt

\* lines 245-265: one pass of the bill loop
BillAttempt(rateLine, hoursLine) ==
    /\ pc = "bill"
    /\ LET rate == IF Input(rateLine).tag = "raise" THEN Input(rateLine)
                   ELSE ParseFloat(rateLine)
           hours == IF Input(hoursLine).tag = "raise" THEN Input(hoursLine)
                    ELSE ParseFloat(hoursLine)
           r == IF rate.tag = "raise" THEN rate
                ELSE IF hours.tag = "raise" THEN hours
                ELSE billCalc(rate.val, hours.val)
       IN  IF r.tag = "raise"
           THEN Except(r.exc) /\ UNCHANGED <<client, totalBill, daysTillCourt>>
           ELSE /\ totalBill' = r.val
                /\ client' = [client EXCEPT ![CostKey(category)] = r.val]
                /\ lastTry' = "return"
                /\ IF StillUnset(r.val)
                   THEN UNCHANGED <<pc, daysTillCourt>>
                   ELSE AfterBill
    /\ UNCHANGED <<category, caseCount, i, clientSuggestion, printed, nPrinted>>
    /\ UNCHANGED calcVars

\* lines 269-276: the charge is read outside any try and stored as typed; the
\* suggestion loop is entered with clientSuggestion = -1
ChargeInput(line) ==
    /\ pc = "charge"
    /\ IF Input(line).tag = "raise"
       THEN pc' = "crashed" /\ UNCHANGED <<client, clientSuggestion>>
       ELSE /\ client' = [client EXCEPT ![ChargeKey(category)] = PyStr(line)]
            /\ clientSuggestion' = PyInt(-1)
            /\ pc' = "suggest"
    /\ lastTry' = "none"
    /\ UNCHANGED <<category, caseCount, i, totalBill, daysTillCourt, printed,
                   nPrinted>>
    /\ UNCHANGED calcVars

\* lines 277-302: one pass of the suggestion loop; on leaving it the date
\* loop is entered with daysTillCourt = -1
SuggestAttempt(l1, l2, l3) ==
    /\ pc = "suggest"
    /\ LET read(l) == IF Input(l).tag = "raise" THEN Input(l) ELSE ParseInt(l)
           strength == read(l1)
           flexibility == read(l2)
           communication == read(l3)
           r == IF strength.tag = "raise" THEN strength
                ELSE IF flexibility.tag = "raise" THEN flexibility
                ELSE IF communication.tag = "raise" THEN communication
                ELSE suggestion(strength.val, flexibility.val, communication.val)
       IN  IF r.tag = "raise"
           THEN Except(r.exc) /\ UNCHANGED <<client, clientSuggestion, daysTillCourt>>
           ELSE /\ clientSuggestion' = r.val
                /\ client' = [client EXCEPT !["Suggested Decision"] = r.val]
                /\ lastTry' = "return"
                /\ IF StillUnset(r.val)
                   THEN UNCHANGED <<pc, daysTillCourt>>
                   ELSE pc' = "date" /\ daysTillCourt' = PyInt(-1)
    /\ UNCHANGED <<category, caseCount, i, totalBill, printed, nPrinted>>
    /\ UNCHANGED calcVars

\* lines 322-327: what the date loop stores for a day count
DaysField_NoSentinel(days) == days

DaysField(days) == IF EqInt(days, 0) THEN PyStr(Today) ELSE days

\* lines 303-328: one pass of the date loop; a day count of 0 is stored as
\* "TODAY!!!"
DateAttempt(line) ==
    /\ pc = "date"
    /\ LET ymd == IF Input(line).tag = "raise" THEN Input(line) ELSE ParseDate(line)
           r == IF ymd.tag = "raise" THEN ymd
                ELSE dateCalc(ymd.val[1], ymd.val[2], ymd.val[3])
       IN  IF r.tag = "raise"
           THEN Except(r.exc) /\ UNCHANGED <<client, daysTillCourt>>
           ELSE /\ daysTillCourt' = r.val
                /\ client' = [client EXCEPT ![DaysKey(category)] = DaysField(r.val)]
                /\ lastTry' = "return"
                /\ pc' = IF StillUnset(r.val) THEN "date" ELSE "report"
    /\ UNCHANGED <<category, caseCount, i, totalBill, clientSuggestion, printed,
                   nPrinted>>
    /\ UNCHANGED calcVars

\* lines 331-336: the report prints every item of the dict
PrintReport ==
    /\ pc = "report"
    /\ printed' = client
    /\ nPrinted' = nPrinted + 1
    /\ pc' = "next"
    /\ lastTry' = "none"
    /\ UNCHANGED <<category, caseCount, i, client, totalBill, clientSuggestion,
                   daysTillCourt>>
    /\ UNCHANGED calcVars

\* the for loop moves on to the next case, the next section or the end
NextCase ==
    /\ pc = "next"
    /\ ForHead(i + 1, caseCount.n)
    /\ lastTry' = "none"
    /\ UNCHANGED <<totalBill, clientSuggestion, daysTillCourt, printed, nPrinted>>
    /\ UNCHANGED calcVars

Next ==
    \/ \E line \in CountLines : CountAttempt(line)
    \/ \E line \in NameLines : NameInput(line)
    \/ \E rateLine \in RateLines, hoursLine \in HoursLines :
           BillAttempt(rateLine, hoursLine)
    \/ \E line \in ChargeLines : ChargeInput(line)
    \/ \E l1 \in RatingLines, l2 \in RatingLines, l3 \in RatingLines :
           SuggestAttempt(l1, l2, l3)
    \/ \E line \in DateLines : DateAttempt(line)
    \/ PrintReport
    \/ NextCase

Spec == Init /\ [][Next]_vars

\* the whole file: the calculators called on their own (as the assert lines
\* 191-206 call them) or the script
ProgramInit == Init \/ CalcInit

ProgramNext == (fn = "none" /\ Next) \/ CalcNext

ProgramSpec == ProgramInit /\ [][ProgramNext]_vars

----------------------------------------------------------------------------
(* Properties of the calculators, checked under CalcSpec *)

Called(f) == fn = f /\ out # Pending

AllInts == \A j \in 1 .. 3 : IsInt(args[j])

\* C1: for integer ratings each in 1..10, suggestion returns exactly the
\* string its total decides: "Drop the case" up to 14, "Let client decide"
\* from 15 to 20, "Pursue the case" from 21 to 30; it never returns None.
C1_SuggestionByTotal ==
    (Called("suggestion") /\ AllInts /\ \A j \in 1 .. 3 : args[j].n \in 1 .. 10)
    => LET total == args[1].n + args[2].n + args[3].n
       IN  /\ out.tag = "return"
           /\ out.val.t = "str"
           /\ total <= 14 => out.val.s = DropTheCase
           /\ (15 <= total /\ total <= 20) => out.val.s = LetClientDecide
           /\ (21 <= total /\ total <= 30) => out.val.s = PursueTheCase

C1_Witness ==
    /\ Called("suggestion")
    /\ args = <<PyInt(1), PyInt(8), PyInt(5)>>
    /\ out = Return(PyStr(DropTheCase))

\* C2: for numbers rate >= 0 and 0 <= hours <= 1000, billCalc returns
\* rate*hours + 200 rounded to 2 decimal places: the exact sum when both are
\* ints, otherwise a whole number of hundredths at most half a hundredth away
\* from the exact sum (an infinite rate gives inf, or nan with hours = 0).
C2_BillValue ==
    (/\ Called("billCalc") /\ IsNumber(args[1]) /\ IsNumber(args[2])
     /\ Ge(args[1], 0) /\ Ge(args[2], 0) /\ ~Gt(args[2], 1000))
    => LET rate == args[1]
           hours == args[2]
           den == rate.d * hours.d
           exact == rate.n * hours.n + 200 * den      \* over den
           v == out.val
       IN  /\ out.tag = "return"
           /\ (rate.k = "inf" /\ hours.n > 0) => v = PosInf
           /\ (rate.k = "inf" /\ hours.n = 0) => v = NaN
           /\ (rate.k = "fin" /\ rate.t # "float" /\ hours.t # "float")
                 => v = PyInt(exact)
           /\ (rate.k = "fin" /\ (rate.t = "float" \/ hours.t = "float"))
                 => /\ v.t = "float" /\ v.k = "fin" /\ v.d = 100
                    /\ 2 * (v.n * den - 100 * exact) <= den
                    /\ 2 * (100 * exact - v.n * den) <= den
           /\ (rate = PyInt(300) /\ hours = PyInt(8)) => EqInt(v, 2600)
           /\ (rate = PyInt(0) /\ hours = PyInt(20)) => EqInt(v, 200)
           /\ (rate = PyInt(100000) /\ hours = PyInt(0)) => EqInt(v, 200)

C2_Witness ==
    /\ Called("billCalc")
    /\ args = <<PyFloat(3, 8), PyFloat(8, 8)>>
    /\ out = Return(PyFloat(20038, 100))

\* C3: for numeric arguments billCalc raises ValueError exactly when
\* rate < 0 or hours < 0 or hours > 1000, and returns a bill otherwise;
\* rate 0, hours 0 and hours 1000 are accepted and rate has no upper bound.
C3_BillOutOfRange ==
    (Called("billCalc") /\ IsNumber(args[1]) /\ IsNumber(args[2]))
    => LET neg(x) == x.k = "ninf" \/ (x.k = "fin" /\ x.n < 0)
           over(x) == x.k = "inf" \/ (x.k = "fin" /\ x.n > 1000 * x.d)
           bad == neg(args[1]) \/ neg(args[2]) \/ over(args[2])
       IN  /\ out = Raise("ValueError") <=> bad
           /\ ~bad => out.tag = "return"
           /\ bad => out.val = PyNone
           /\ (args[1] \in {PyInt(0), PyInt(BigRate)}
               /\ args[2] \in {PyInt(0), PyInt(1000)}) => out.tag = "return"

C3_Witness ==
    /\ Called("billCalc")
    /\ args = <<PyInt(300), PyFloat(8001, 8)>>
    /\ out = Raise("ValueError")

\* C4: for integer arguments suggestion raises ValueError exactly when some
\* rating is < 1 or > 10, whatever the other two are, and then returns no
\* recommendation.
C4_RatingOutOfRange ==
    (Called("suggestion") /\ AllInts)
    => LET bad == \E j \in 1 .. 3 : args[j].n < 1 \/ args[j].n > 10
       IN  /\ out = Raise("ValueError") <=> bad
           /\ bad => out.tag = "raise" /\ out.val = PyNone
           /\ ~bad => out.tag = "return"

C4_Witness ==
    /\ Called("suggestion")
    /\ args = <<PyInt(5), PyInt(5), PyInt(11)>>
    /\ out = Raise("ValueError")

\* the last day the simplified rule allows in a month
SimplifiedLastDay(y, m) ==
    IF m \in {1, 3, 5, 7, 8, 10, 12} THEN 31
    ELSE IF m \in {4, 6, 9, 11} THEN 30
    ELSE IF y % 4 # 0 THEN 28 ELSE 29

PassesValidation(y, m, d) ==
    /\ y < 2100
    /\ m \in 1 .. 12
    /\ d \in 1 .. SimplifiedLastDay(y, m)

\* C5: for integer arguments dateCalc raises ValueError whenever year >= 2100,
\* or month is outside 1..12, or day is outside the month's range under the
\* simplified rule; month 2, day 30 is rejected for every year.
C5_DateOutOfRange ==
    (Called("dateCalc") /\ AllInts)
    => /\ ~PassesValidation(args[1].n, args[2].n, args[3].n)
            => out = Raise("ValueError")
       /\ (args[2].n = 2 /\ args[3].n = 30) => out = Raise("ValueError")

C5_Witness ==
    /\ Called("dateCalc")
    /\ args = <<PyInt(2100), PyInt(1), PyInt(1)>>
    /\ out = Raise("ValueError")

BeforeToday(y, m, d) ==
    \/ y < 2021
    \/ y = 2021 /\ m < 6
    \/ y = 2021 /\ m = 6 /\ d < 15

\* the calendar day after (y, m, d)
NextDay(y, m, d) ==
    IF d < SimplifiedLastDay(y, m) THEN <<y, m, d + 1>>
    ELSE IF m < 12 THEN <<y, m + 1, 1>>
    ELSE <<y + 1, 1, 1>>

\* C6: a date that passes validation raises ValueError when it is before
\* 2021-06-15; otherwise dateCalc returns the number of calendar days from
\* 2021-06-15 to it: 0 for that day and one more for each following day (1 for
\* 2021-06-16, 15 for 2021-06-30, 785 for 2023-08-09), never a negative number.
C6_DaysFromToday ==
    (Called("dateCalc") /\ AllInts
     /\ PassesValidation(args[1].n, args[2].n, args[3].n))
    => LET y == args[1].n
           m == args[2].n
           d == args[3].n
           nd == NextDay(y, m, d)
       IN  /\ BeforeToday(y, m, d) => out = Raise("ValueError")
           /\ ~BeforeToday(y, m, d)
                => /\ out.tag = "return"
                   /\ out.val.t = "int"
                   /\ out.val.n >= 0
                   /\ out.val.n = 0 <=> <<y, m, d>> = <<2021, 6, 15>>
                   /\ nd[1] < 2100
                        => dateCalc(PyInt(nd[1]), PyInt(nd[2]), PyInt(nd[3]))
                             = Return(PyInt(out.val.n + 1))
           /\ <<y, m, d>> = <<2021, 6, 16>> => out = Return(PyInt(1))
           /\ <<y, m, d>> = <<2021, 6, 30>> => out = Return(PyInt(15))
           /\ <<y, m, d>> = <<2023, 8, 9>> => out = Return(PyInt(785))

C6_Witness ==
    /\ Called("dateCalc")
    /\ args = <<PyInt(2023), PyInt(8), PyInt(9)>>
    /\ out = Return(PyInt(785))

RightType(f, x) == IF f = "billCalc" THEN IsNumber(x) ELSE IsInt(x)

\* C7: in each calculator the type check comes first: a call with an argument
\* of the wrong type raises TypeError even when another argument is out of
\* range, and ValueError is raised only when every argument has the right type.
C7_TypeCheckFirst ==
    (fn \in {"billCalc", "suggestion", "dateCalc"} /\ out # Pending)
    => LET wrong == \E j \in DOMAIN args : ~RightType(fn, args[j])
       IN  /\ wrong => out = Raise("TypeError")
           /\ out = Raise("ValueError") => ~wrong
           /\ out = Raise("TypeError") => wrong

C7_Witness ==
    /\ Called("billCalc")
    /\ args = <<PyInt(-1), PyStr(<<"8">>)>>
    /\ out = Raise("TypeError")

GregorianLeap(y) == (y % 4 = 0 /\ y % 100 # 0) \/ y % 400 = 0

GregorianLastDay(y, m) ==
    IF m \in {1, 3, 5, 7, 8, 10, 12} THEN 31
    ELSE IF m \in {4, 6, 9, 11} THEN 30
    ELSE IF GregorianLeap(y) THEN 29 ELSE 28

\* C14: every (year, month, day) for which dateCalc returns a value has its
\* year in 2021..2099 and is a day of the Gregorian calendar, where the
\* year % 4 rule and the Gregorian rule give the month the same length; a date
\* the simplified rule accepts but the calendar lacks (1900-02-29), and any
\* year < 1, ends in ValueError.
C14_OnlyRealDates ==
    (Called("dateCalc") /\ AllInts)
    => LET y == args[1].n
           m == args[2].n
           d == args[3].n
       IN  /\ out.tag = "return"
                => /\ 2021 <= y /\ y <= 2099
                   /\ m \in 1 .. 12
                   /\ d \in 1 .. GregorianLastDay(y, m)
                   /\ SimplifiedLastDay(y, m) = GregorianLastDay(y, m)
           /\ (PassesValidation(y, m, d)
               /\ (y < 1 \/ m \notin 1 .. 12 \/ d > GregorianLastDay(y, m)))
                => out = Raise("ValueError")
           /\ y < 1 => out = Raise("ValueError")

C14_Witness ==
    /\ Called("dateCalc")
    /\ args = <<PyInt(1900), PyInt(2), PyInt(29)>>
    /\ PassesValidation(1900, 2, 29)
    /\ out = Raise("ValueError")

----------------------------------------------------------------------------
(* Properties of the console program, checked under Spec *)

PrintedCostKey ==
    IF "Filing Fee" \in DOMAIN printed THEN "Filing Fee" ELSE "Legal Counsel Cost Due"
PrintedDaysKey ==
    IF "Days Until Deadline" \in DOMAIN printed THEN "Days Until Deadline"
    ELSE "Days Until Court"

\* C8: in every printed record the monetary field ("Legal Counsel Cost Due" or
\* "Filing Fee") is >= 200, the flat retainer fee, whatever rates and hours
\* were typed.
C8_PrintedCostAtLeastRetainer ==
    printed # <<>> => Ge(printed[PrintedCostKey], 200)

\* C9: in every printed record the day-count field is "TODAY!!!" or a
\* non-negative integer: "TODAY!!!" exactly when dateCalc returned 0, and
\* otherwise the integer dateCalc returned.
C9_PrintedDaysField ==
    /\ printed # <<>>
         => LET v == printed[PrintedDaysKey]
            IN  v = PyStr(Today) \/ (v.t = "int" /\ v.n >= 0)
    /\ pc \in {"report", "next"}
         => /\ daysTillCourt.t = "int" /\ daysTillCourt.n >= 0
            /\ client[DaysKey(category)] = PyStr(Today) <=> daysTillCourt.n = 0
            /\ daysTillCourt.n # 0 => client[DaysKey(category)] = daysTillCourt
    /\ pc = "next" => printed = client

C9_Witness ==
    /\ pc = "next"
    /\ daysTillCourt = PyInt(0)
    /\ printed[PrintedDaysKey] = PyStr(Today)

RetryLoops == {"count", "bill", "suggest", "date"}

RetryStep ==
    pc \in RetryLoops
    => /\ pc' # "crashed"
       /\ lastTry' \in {"raise", "negative"}
            => pc' = pc /\ category' = category /\ i' = i
       /\ (pc' # pc \/ category' # category) => lastTry' = "return"

\* C11: in every prompt loop (case count, bill, suggestion, date) a pass that
\* ends in a caught parse or calculator error, or in a negative count, neither
\* ends the program nor moves on: the same field of the same case is prompted
\* again; the program leaves the prompt only by a pass that succeeded.
C11_RetryUntilSuccess ==
    [][RetryStep]_vars

C11_Witness ==
    /\ pc = "suggest"
    /\ lastTry = "raise"
    /\ client["Suggested Decision"] = PyInt(0)

\* the fields a calculator fills in
DerivedKeys(cat) ==
    IF cat = "Filing" THEN {"Filing Fee", "Days Until Deadline"}
    ELSE {"Legal Counsel Cost Due", "Suggested Decision", "Days Until Court"}

\* the one field a pass at prompt p may write
FieldOf(p, cat) ==
    IF p = "name" THEN "Name"
    ELSE IF p = "bill" THEN CostKey(cat)
    ELSE IF p = "charge" THEN ChargeKey(cat)
    ELSE IF p = "suggest" THEN "Suggested Decision"
    ELSE DaysKey(cat)

\* a step that starts an iteration of a case loop
StartsCase == pc' = "name" /\ pc # "name"

\* writes go to one field, by the name or charge input or by a pass that
\* succeeded; a failed pass writes nothing; nothing calculator-derived is 0
\* when the report prints; after the report the dict is only ever replaced by
\* the next iteration's new dict
RecordStep ==
    /\ lastTry' \in {"raise", "negative"} => client' = client
    /\ (client' # client /\ ~StartsCase)
         => /\ pc \in {"name", "bill", "charge", "suggest", "date"}
            /\ pc \in RetryLoops => lastTry' = "return"
            /\ DOMAIN client' = DOMAIN client
            /\ \A k \in DOMAIN client :
                   k # FieldOf(pc, category) => client'[k] = client[k]
    /\ (pc = "report" /\ pc' = "next")
         => /\ printed' = client
            /\ \A k \in DerivedKeys(category) :
                   k \in DOMAIN client /\ client[k] # PyInt(0) /\ ~EqInt(client[k], 0)
    /\ pc \in {"report", "next", "count", "done", "crashed"}
         => client' = client \/ StartsCase

FreshButType ==
    StartsCase
    => /\ DerivedKeys(category') \cup {"Type", "Name"} \subseteq DOMAIN client'
       /\ client'["Type"].t = "str"
       /\ \A k \in DOMAIN client' \ {"Type"} : client'[k] = PyInt(0)

FreshAllZero ==
    StartsCase => \A k \in DOMAIN client' : client'[k] = PyInt(0)

\* C12 as stated: the record of an iteration is created with the placeholder 0
\* in each field; a field is written only by a successful attempt and a failed
\* attempt leaves the record unchanged; no calculator-derived field is 0 when
\* the report prints; the record is not written after the report.
C12_AsStated ==
    [][RecordStep /\ FreshAllZero]_vars

\* C12, amended: as above, with the placeholder 0 in each field other than
\* Type, which is created holding the section's name.
C12_RecordLifecycle ==
    [][RecordStep /\ FreshButType]_vars

C12_Witness ==
    /\ pc = "next"
    /\ nPrinted >= 2
    /\ i = 1
    /\ printed = client
    /\ lastTry = "none"

----------------------------------------------------------------------------
(* Properties of calculators and script together, checked under ProgramSpec *)

\* a retry loop is entered with its variable at -1, a pass that returned
\* stores a value other than -1 and leaves the loop, and the loop is left by
\* no other pass; no call of a calculator returns -1
SentinelStep ==
    /\ out'.tag = "return" => ~EqInt(out'.val, -1)
    /\ (pc' = "bill" /\ pc # "bill") => totalBill' = PyInt(-1)
    /\ (pc' = "suggest" /\ pc # "suggest") => clientSuggestion' = PyInt(-1)
    /\ (pc' = "date" /\ pc # "date") => daysTillCourt' = PyInt(-1)
    /\ pc = "bill" => /\ EqInt(totalBill, -1)
                      /\ lastTry' = "return" <=> pc' # "bill"
                      /\ lastTry' = "return" => ~EqInt(totalBill', -1)
    /\ pc = "suggest" => /\ EqInt(clientSuggestion, -1)
                         /\ lastTry' = "return" <=> pc' # "suggest"
                         /\ lastTry' = "return" => ~EqInt(clientSuggestion', -1)
    /\ pc = "date" => /\ EqInt(daysTillCourt, -1)
                      /\ lastTry' = "return" <=> pc' # "date"
                      /\ lastTry' = "return" => ~EqInt(daysTillCourt', -1)

\* C13: the retry loops run while their variable is -1; no successful call of
\* billCalc, suggestion or dateCalc returns -1, so each loop is left exactly by
\* the first pass whose calculator call returned, and never prompts again
\* after it.
C13_SentinelNeverReturned ==
    [][SentinelStep]_vars

C13_Witness ==
    /\ pc = "report"
    /\ lastTry = "return"
    /\ daysTillCourt = PyInt(0)

====
